---------------------------- MODULE Spec2Model ----------------------------
(***************************************************************************)
(* A state-machine model of poc-proxy-https (main.go): one run of main()   *)
(* from the parsed flags to the end of the process.                        *)
(*                                                                         *)
(* Go strings are sequences of bytes (ASCII codes).  The destination URL   *)
(* is kept as an opaque literal, because only net/url reads it.            *)
(* The network (proxy, destination, TLS peer) is the environment: its      *)
(* answers are nondeterministic choices inside the transport's steps.      *)
(***************************************************************************)
EXTENDS Naturals, Integers, Sequences, FiniteSets, TLC

\* ------------------------------------------------------------------ bounds
\* Longest proxy specifier drawn by InitProxy.
MaxProxyLen == 7
\* Longest user and longest password drawn by InitCred.
MaxCredLen == 2

\* ------------------------------------------------------------ byte strings
\* ':' and '/', the bytes of the literals "://" (line 30) and "%s:%s" (line 50).
ChColon == 58
ChSlash == 47

\* "://", the separator main() splits the proxy flag on.
SchemeDelim == <<ChColon, ChSlash, ChSlash>>

\* All byte strings over alphabet A of length at most n.
StringsUpTo(A, n) == UNION {[1..k -> A] : k \in 0..n}

Min(S) == CHOOSE x \in S : \A y \in S : x <= y

\* strings.Index: the 1-based position of the first occurrence of sep in s,
\* 0 when there is none (Go: -1).
Index(s, sep) ==
  LET C == {i \in 1..(Len(s) - Len(sep) + 1) : SubSeq(s, i, i + Len(sep) - 1) = sep}
  IN  IF C = {} THEN 0 ELSE Min(C)

\* strings.Split(s, sep) for a non-empty sep: the substrings between the
\* non-overlapping occurrences of sep, found left to right.
RECURSIVE Split(_, _)
Split(s, sep) ==
  LET i == Index(s, sep)
  IN  IF i = 0
      THEN <<s>>
      ELSE <<SubSeq(s, 1, i - 1)>> \o Split(SubSeq(s, i + Len(sep), Len(s)), sep)

\* --------------------------------------------------------------- base64
\* encoding/base64 StdEncoding: the RFC 4648 alphabet, as ASCII codes.
EncodeStd ==
  [i \in 0..63 |->
     IF i < 26 THEN 65 + i
     ELSE IF i < 52 THEN 97 + (i - 26)
     ELSE IF i < 62 THEN 48 + (i - 52)
     ELSE IF i = 62 THEN 43 ELSE 47]

\* StdPadding, '='.
StdPadding == 61

\* Encoding.EncodeToString: every 3 source bytes give 4 characters; a
\* remainder of 1 or 2 bytes gives 2 or 3 characters and padding to 4.
RECURSIVE EncodeToString(_)
EncodeToString(src) ==
  IF Len(src) = 0 THEN <<>>
  ELSE IF Len(src) >= 3
  THEN LET val == src[1] * 65536 + src[2] * 256 + src[3]
       IN  <<EncodeStd[val \div 262144], EncodeStd[(val \div 4096) % 64],
             EncodeStd[(val \div 64) % 64], EncodeStd[val % 64]>>
           \o EncodeToString(SubSeq(src, 4, Len(src)))
  ELSE IF Len(src) = 2
  THEN LET val == src[1] * 65536 + src[2] * 256
       IN  <<EncodeStd[val \div 262144], EncodeStd[(val \div 4096) % 64],
             EncodeStd[(val \div 64) % 64], StdPadding>>
  ELSE LET val == src[1] * 65536
       IN  <<EncodeStd[val \div 262144], EncodeStd[(val \div 4096) % 64],
             StdPadding, StdPadding>>

\* "Basic ", the literal of main.go line 51.
BasicPrefix == <<66, 97, 115, 105, 99, 32>>

\* main.go line 50: fmt.Sprintf("%s:%s", user, password).
AuthString(u, p) == u \o <<ChColon>> \o p

\* BasicValue with the ':' between user and password left out.
BasicValueNoColon(u, p) == BasicPrefix \o EncodeToString(u \o p)

\* main.go lines 50-51: the Proxy-Authorization value.
BasicValue(u, p) == BasicPrefix \o EncodeToString(AuthString(u, p))

\* HasCredentials with || for &&.
HasCredentialsEither(u, p) == u # <<>> \/ p # <<>>

\* HasCredentials with the test of the password inverted.
HasCredentialsInverted(u, p) == u # <<>> /\ p = <<>>

\* main.go line 48: the guard of the basic-auth block.
HasCredentials(u, p) == u # <<>> /\ p # <<>>

\* ------------------------------------------------------------ net/url, net/http
\* The Proxy-Authorization header name.
ProxyAuthorization == "Proxy-Authorization"

\* An http.Header holding nothing.
EmptyHeader == [h \in {ProxyAuthorization} |-> <<>>]

\* Header.Add: append the value to the values of the key.
HeaderAdd(hdr, key, value) == [hdr EXCEPT ![key] = Append(@, value)]

\* A URL of net/url, as far as main() and the transport read it.
NoURL == [Scheme |-> "", Host |-> ""]

\* (*http.Request)(nil).
NilRequest == [isNil |-> TRUE, Method |-> "", URL |-> NoURL, Header |-> EmptyHeader]

\* A nil error.
NoError == [kind |-> "nil", status |-> 0]

\* url.Parse on the destinations the model draws: a URL, or a parse error.
\* The empty string parses to the empty URL; ":bad" has no protocol scheme.
ParseURL(d) ==
  CASE d = "https://example.test/" ->
         [ok |-> TRUE, url |-> [Scheme |-> "https", Host |-> "example.test"]]
    [] d = "http://example.test/" ->
         [ok |-> TRUE, url |-> [Scheme |-> "http", Host |-> "example.test"]]
    [] d = "" -> [ok |-> TRUE, url |-> NoURL]
    [] OTHER -> [ok |-> FALSE, url |-> NoURL]

\* http.NewRequest(method, d, nil): (request, nil) or (nil, error).
NewRequest(method, d) ==
  LET u == ParseURL(d)
  IN  IF u.ok
      THEN [req |-> [isNil |-> FALSE, Method |-> method, URL |-> u.url,
                     Header |-> EmptyHeader],
            err |-> NoError]
      ELSE [req |-> NilRequest, err |-> [kind |-> "ParseError", status |-> 0]]

\* main.go line 37: req, _ := http.NewRequest("GET", dest, nil).  The error
\* is assigned to the blank identifier; only the request is kept.
MainNewRequest(d) == NewRequest("GET", d).req

\* main.go lines 31-32: the indices main() reads from the split.
ProxySchemeOf(parsed) == parsed[1]
\* ProxyHostOf reading the first part again.
ProxyHostOfFirst(parsed) == parsed[1]
\* ProxyHostOf adding ":80" to a host that has no port.
ProxyHostOfDefaultPort(parsed) ==
  IF \E i \in DOMAIN parsed[2] : parsed[2][i] = ChColon
  THEN parsed[2]
  ELSE parsed[2] \o <<ChColon, 56, 48>>
ProxyHostOf(parsed) == parsed[2]

\* The flags main() registers (lines 24-27).
Flags == {"proxy", "user", "password", "dest"}

\* Whether the caller can ask for, and has asked for, the insecure mode:
\* no flag of main() selects it.
InsecureSelected == "insecure" \in Flags

\* main.go line 44: tls.Config{InsecureSkipVerify: true}.
TLSClientConfig == [InsecureSkipVerify |-> TRUE]

\* main.go lines 38-45: the proxy URL and the transport.  ProxyConnectHeader
\* is not set, so it keeps its zero value, the empty header.
MainTransport(scheme, host) ==
  [Proxy |-> [Scheme |-> scheme, Host |-> host],
   TLSClientConfig |-> TLSClientConfig,
   ProxyConnectHeader |-> EmptyHeader]

\* The headers of the CONNECT request (README lines 4-6): the request's own
\* headers are not passed to CONNECT; the transport sends the headers of its
\* ProxyConnectHeader field.
ConnectHeader(t, r) == t.ProxyConnectHeader

\* Whether the proxy's answer to CONNECT establishes the tunnel.
ConnectAccepted(status) == status \in 200..299

\* DoFailed with the error of client.Do ignored.
DoFailedIgnored(e) == FALSE

\* main.go line 59: if err != nil.
DoFailed(e) == e # NoError

\* AfterDoError going back to client.Do instead of returning.
AfterDoErrorRetry == "do"

\* main.go line 61: return, after client.Do failed.
AfterDoError == "done"

\* ReadFailed with the error of ioutil.ReadAll ignored.
ReadFailedIgnored(e) == FALSE

\* main.go line 66: if err != nil, after ioutil.ReadAll.
ReadFailed(e) == e # NoError

\* ------------------------------------------------------------------- fmt
\* What is written to standard output: lines of tokens.
Lit(s) == [k |-> "lit", s |-> s, q |-> <<>>, n |-> 0]
Str(q) == [k |-> "str", s |-> "", q |-> q, n |-> 0]
IntDec(n) == [k |-> "int", s |-> "", q |-> <<>>, n |-> n]
\* "%!s(int=N)": fmt's output for the verb %s given an int.
BadVerbInt(n) == [k |-> "%!s(int=N)", s |-> "", q |-> <<>>, n |-> n]
ErrText(e) == [k |-> "error", s |-> e.kind, q |-> <<>>, n |-> e.status]
\* "&{0x...}": fmt's %v of a *os.File, a pointer to a struct that holds one
\* pointer (os.File{*file}).
FilePtr(name) == [k |-> "&{0x...}", s |-> name, q |-> <<>>, n |-> 0]

\* Arguments handed to fmt.
StringArg(q) == [t |-> "string", q |-> q, n |-> 0, e |-> NoError, f |-> ""]
IntArg(n) == [t |-> "int", q |-> <<>>, n |-> n, e |-> NoError, f |-> ""]
ErrorArg(e) == [t |-> "error", q |-> <<>>, n |-> 0, e |-> e, f |-> ""]
FileArg(f) == [t |-> "*os.File", q |-> <<>>, n |-> 0, e |-> NoError, f |-> f]

\* The verb %s: a string prints as its bytes, an error as its message, an
\* int as the bad-verb text.
VerbS(a) ==
  CASE a.t = "string" -> Str(a.q)
    [] a.t = "error" -> ErrText(a.e)
    [] a.t = "int" -> BadVerbInt(a.n)
    [] OTHER -> FilePtr(a.f)

\* The verb %v, which Println applies to every operand.
VerbV(a) ==
  CASE a.t = "string" -> Str(a.q)
    [] a.t = "error" -> ErrText(a.e)
    [] a.t = "int" -> IntDec(a.n)
    [] OTHER -> FilePtr(a.f)

\* fmt.Println: the operands in %v, a space between every two.
RECURSIVE Println(_)
Println(args) ==
  IF Len(args) = 0 THEN <<>>
  ELSE IF Len(args) = 1 THEN <<VerbV(args[1])>>
  ELSE <<VerbV(args[1]), Lit(" ")>> \o Println(Tail(args))

\* main.go line 64: fmt.Printf("code: %s\n", resp.StatusCode).
PrintCode(code) == <<Lit("code: "), VerbS(IntArg(code))>>

\* main.go line 71: fmt.Println(os.Stdout, string(htmlData)).
PrintBody(data) == Println(<<FileArg("os.Stdout"), StringArg(data)>>)

\* ---------------------------------------------------------------- inputs
\* The bytes proxy specifiers are drawn from: 'h', '1', ':', '/'.
ProxyAlphabet == {104, 49, ChColon, ChSlash}

\* The bytes users and passwords are drawn from: 'a', ':', 0xFF.
CredAlphabet == {97, ChColon, 255}

\* "h://h:1", "h:1" (the README's IP:PORT form), "" (the flag's default)
\* and "h://h" (no port).
ProxyInputs ==
  { <<104, 58, 47, 47, 104, 58, 49>>, <<104, 58, 49>>, <<>>, <<104, 58, 47, 47, 104>> }

\* "alice"/"s3cret" of the spec's example, and the flags' default "".
UserInputs == { <<>>, <<97, 108, 105, 99, 101>> }
PasswordInputs == { <<>>, <<115, 51, 99, 114, 101, 116>> }

DestInputs == { "", ":bad", "http://example.test/", "https://example.test/" }

\* What the environment may answer.
ProxyStatuses == {200, 407, 502}
DestStatuses == {200, 404}
DestBodies == { <<>>, <<104>>, <<104, 105>> }
Handshakes == {"ok", "badcert", "fail"}

\* ----------------------------------------------------------------- state
VARIABLES
  proxy, user, password, dest,   \* the flags, after flag.Parse (lines 24-28)
  pc,                            \* where main() is
  parsedProxy,                   \* line 30
  proxyScheme, proxyHost,        \* lines 31-32
  req,                           \* line 37
  transport,                     \* lines 42-45
  handedOff,                     \* the request as client.Do received it
  connectReq,                    \* the CONNECT request the proxy received
  connectStatus,                 \* the proxy's answer to it, 0 before
  conn,                          \* the connection to the proxy
  netlog,                        \* the network phases attempted, in order
  resp, err,                     \* line 56, and line 65 for err
  wire,                          \* what the destination served
  htmlData,                      \* line 65
  stdout,                        \* the lines printed
  outcome,                       \* how the run ended
  panicAt                        \* the statement that panicked

vars ==
  <<proxy, user, password, dest, pc, parsedProxy, proxyScheme, proxyHost, req,
    transport, handedOff, connectReq, connectStatus, conn, netlog, resp, err,
    wire, htmlData, stdout, outcome, panicAt>>

inputs == <<proxy, user, password, dest>>

NilResponse == [isNil |-> TRUE, StatusCode |-> 0, Body |-> <<>>]
\* The zero value of http.Transport, before line 42.
NoTransport ==
  [Proxy |-> [Scheme |-> <<>>, Host |-> <<>>],
   TLSClientConfig |-> [InsecureSkipVerify |-> FALSE],
   ProxyConnectHeader |-> EmptyHeader]
NoWire == [StatusCode |-> 0, Body |-> <<>>]

\* The state after flag.Parse, for given flag values.
Start(px, u, pw, d) ==
  /\ proxy = px /\ user = u /\ password = pw /\ dest = d
  /\ pc = "split"
  /\ parsedProxy = <<>> /\ proxyScheme = <<>> /\ proxyHost = <<>>
  /\ req = NilRequest
  /\ transport = NoTransport
  /\ handedOff = NilRequest
  /\ connectReq = NilRequest
  /\ connectStatus = 0
  /\ conn = "none"
  /\ netlog = <<>>
  /\ resp = NilResponse /\ err = NoError
  /\ wire = NoWire
  /\ htmlData = <<>>
  /\ stdout = <<>>
  /\ outcome = "running"
  /\ panicAt = "none"

Init ==
  \E px \in ProxyInputs, u \in UserInputs, pw \in PasswordInputs, d \in DestInputs :
    Start(px, u, pw, d)

\* Every proxy specifier up to MaxProxyLen, beside the runs of Init.
InitProxy ==
  \/ Init
  \/ \E px \in StringsUpTo(ProxyAlphabet, MaxProxyLen) :
       Start(px, <<>>, <<>>, "https://example.test/")

\* Every user and password up to MaxCredLen, beside the runs of Init.
InitCred ==
  \/ Init
  \/ \E u \in StringsUpTo(CredAlphabet, MaxCredLen),
        pw \in StringsUpTo(CredAlphabet, MaxCredLen),
        d \in {":bad", "https://example.test/"} :
       Start(<<104, 58, 47, 47, 104, 58, 49>>, u, pw, d)

\* A runtime panic: the process ends there, with nothing reported by main().
Panic(at) ==
  /\ pc' = "done"
  /\ outcome' = "panic"
  /\ panicAt' = at

\* ---------------------------------------------------------------- main()
\* Lines 30-35: split the proxy flag, index the parts, print them.
\* parsedProxy[1] (Go index) of a one-element slice panics.
SplitProxy ==
  /\ pc = "split"
  /\ parsedProxy' = Split(proxy, SchemeDelim)
  /\ IF Len(parsedProxy') < 2
     THEN /\ Panic("parsedProxy[1]")
          /\ proxyScheme' = ProxySchemeOf(parsedProxy')
          /\ UNCHANGED <<proxyHost, stdout>>
     ELSE /\ proxyScheme' = ProxySchemeOf(parsedProxy')
          /\ proxyHost' = ProxyHostOf(parsedProxy')
          /\ stdout' = stdout \o << <<Lit("scheme: "), VerbS(StringArg(proxyScheme'))>>,
                                    <<Lit("host: "), VerbS(StringArg(proxyHost'))>> >>
          /\ pc' = "newrequest"
          /\ UNCHANGED <<outcome, panicAt>>
  /\ UNCHANGED <<inputs, req, transport, handedOff, connectReq, connectStatus, conn,
                 netlog, resp, err, wire, htmlData>>

\* Line 37.
BuildRequest ==
  /\ pc = "newrequest"
  /\ req' = MainNewRequest(dest)
  /\ pc' = "transport"
  /\ UNCHANGED <<inputs, parsedProxy, proxyScheme, proxyHost, transport, handedOff,
                 connectReq, connectStatus, conn, netlog, resp, err, wire, htmlData,
                 stdout, outcome, panicAt>>

\* Lines 38-46.
BuildTransport ==
  /\ pc = "transport"
  /\ transport' = MainTransport(proxyScheme, proxyHost)
  /\ pc' = "auth"
  /\ UNCHANGED <<inputs, parsedProxy, proxyScheme, proxyHost, req, handedOff,
                 connectReq, connectStatus, conn, netlog, resp, err, wire, htmlData,
                 stdout, outcome, panicAt>>

\* Lines 48-55.  req.Header of a nil request is a nil-pointer dereference.
SetAuth ==
  /\ pc = "auth"
  /\ IF HasCredentials(user, password)
     THEN IF req.isNil
          THEN /\ stdout' = Append(stdout, <<Lit("Setting basic auth")>>)
               /\ Panic("req.Header")
               /\ UNCHANGED req
          ELSE /\ req' = [req EXCEPT !.Header =
                            HeaderAdd(@, ProxyAuthorization, BasicValue(user, password))]
               /\ stdout' = stdout \o << <<Lit("Setting basic auth")>>,
                                         <<Lit("making request")>> >>
               /\ pc' = "do"
               /\ UNCHANGED <<outcome, panicAt>>
     ELSE /\ stdout' = Append(stdout, <<Lit("making request")>>)
          /\ pc' = "do"
          /\ UNCHANGED <<req, outcome, panicAt>>
  /\ UNCHANGED <<inputs, parsedProxy, proxyScheme, proxyHost, transport, handedOff,
                 connectReq, connectStatus, conn, netlog, resp, err, wire, htmlData>>

\* ------------------------------------------------------------- client.Do
Phase(name, ok) == [phase |-> name, ok |-> ok]

TransportError(kind, status) == [kind |-> kind, status |-> status]

\* Line 56, entry: client.Do reads req.URL (a nil request panics) and the
\* transport refuses a scheme that is neither http nor https before it dials.
DoStart ==
  /\ pc = "do"
  /\ handedOff' = req
  /\ IF req.isNil
     THEN /\ Panic("client.Do(nil)")
          /\ UNCHANGED err
     ELSE IF req.URL.Scheme \notin {"http", "https"}
     THEN /\ err' = TransportError("UnsupportedScheme", 0)
          /\ pc' = "afterdo"
          /\ UNCHANGED <<outcome, panicAt>>
     ELSE /\ pc' = "dial"
          /\ UNCHANGED <<err, outcome, panicAt>>
  /\ UNCHANGED <<inputs, parsedProxy, proxyScheme, proxyHost, req, transport,
                 connectReq, connectStatus, conn, netlog, resp, wire, htmlData, stdout>>

\* Phase 1: open a stream to transport.Proxy.Host.
Dial ==
  /\ pc = "dial"
  /\ \E ok \in BOOLEAN :
       /\ netlog' = Append(netlog, Phase("dial", ok))
       /\ IF ok
          THEN /\ conn' = "open"
               /\ pc' = IF req.URL.Scheme = "https" THEN "connect" ELSE "exchange"
               /\ UNCHANGED err
          ELSE /\ err' = TransportError("DialError", 0)
               /\ pc' = "afterdo"
               /\ UNCHANGED conn
  /\ UNCHANGED <<inputs, parsedProxy, proxyScheme, proxyHost, req, transport, handedOff,
                 connectReq, connectStatus, resp, wire, htmlData, stdout, outcome,
                 panicAt>>

\* Phase 2, https destinations: CONNECT host:port, and the proxy's answer.
Connect ==
  /\ pc = "connect"
  /\ connectReq' = [isNil |-> FALSE, Method |-> "CONNECT", URL |-> req.URL,
                    Header |-> ConnectHeader(transport, req)]
  /\ \E status \in ProxyStatuses :
       /\ connectStatus' = status
       /\ netlog' = Append(netlog, Phase("connect", ConnectAccepted(status)))
       /\ IF ConnectAccepted(status)
          THEN /\ pc' = "tls"
               /\ UNCHANGED <<conn, err>>
          ELSE /\ conn' = "closed"
               /\ err' = TransportError("ProxyAuthError", status)
               /\ pc' = "afterdo"
  /\ UNCHANGED <<inputs, parsedProxy, proxyScheme, proxyHost, req, transport, handedOff,
                 resp, wire, htmlData, stdout, outcome, panicAt>>

\* Phase 3: the TLS handshake with the destination over the tunnel.  A
\* certificate that does not validate is accepted under InsecureSkipVerify.
TLSHandshake ==
  /\ pc = "tls"
  /\ \E hs \in Handshakes :
       LET ok == \/ hs = "ok"
                 \/ hs = "badcert" /\ transport.TLSClientConfig.InsecureSkipVerify
       IN  /\ netlog' = Append(netlog, Phase("tls", ok))
           /\ IF ok
              THEN /\ pc' = "exchange"
                   /\ UNCHANGED <<conn, err>>
              ELSE /\ conn' = "closed"
                   /\ err' = TransportError("TLSError", 0)
                   /\ pc' = "afterdo"
  /\ UNCHANGED <<inputs, parsedProxy, proxyScheme, proxyHost, req, transport, handedOff,
                 connectReq, connectStatus, resp, wire, htmlData, stdout, outcome,
                 panicAt>>

\* Write the request, read the response's status line and headers.
Exchange ==
  /\ pc = "exchange"
  /\ \E ok \in BOOLEAN, code \in DestStatuses, body \in DestBodies :
       /\ netlog' = Append(netlog, Phase("exchange", ok))
       /\ IF ok
          THEN /\ wire' = [StatusCode |-> code, Body |-> body]
               /\ resp' = [isNil |-> FALSE, StatusCode |-> code, Body |-> body]
               /\ UNCHANGED <<conn, err>>
          ELSE /\ conn' = "closed"
               /\ err' = TransportError("RequestError", 0)
               /\ UNCHANGED <<wire, resp>>
  /\ pc' = "afterdo"
  /\ UNCHANGED <<inputs, parsedProxy, proxyScheme, proxyHost, req, transport, handedOff,
                 connectReq, connectStatus, htmlData, stdout, outcome, panicAt>>

\* Lines 57-62.
AfterDo ==
  /\ pc = "afterdo"
  /\ IF DoFailed(err)
     THEN /\ stdout' = stdout \o << <<Lit("done")>>,
                                    <<Lit("error: "), VerbS(ErrorArg(err))>> >>
          /\ outcome' = "error"
          /\ pc' = AfterDoError
     ELSE /\ stdout' = Append(stdout, <<Lit("done")>>)
          /\ pc' = "code"
          /\ UNCHANGED outcome
  /\ UNCHANGED <<inputs, parsedProxy, proxyScheme, proxyHost, req, transport, handedOff,
                 connectReq, connectStatus, conn, netlog, resp, err, wire, htmlData,
                 panicAt>>

\* Line 64.  resp.StatusCode of a nil response is a nil-pointer dereference.
PrintStatusCode ==
  /\ pc = "code"
  /\ IF resp.isNil
     THEN /\ Panic("resp.StatusCode")
          /\ UNCHANGED stdout
     ELSE /\ stdout' = Append(stdout, PrintCode(resp.StatusCode))
          /\ pc' = "read"
          /\ UNCHANGED <<outcome, panicAt>>
  /\ UNCHANGED <<inputs, parsedProxy, proxyScheme, proxyHost, req, transport, handedOff,
                 connectReq, connectStatus, conn, netlog, resp, err, wire, htmlData>>

\* Lines 65-69: ioutil.ReadAll returns the whole body, or what it read and
\* the error when the stream ends before the body is complete.  The transport
\* closes a connection whose body read failed; main() closes nothing.
ReadAll ==
  /\ pc = "read"
  /\ \E complete \in BOOLEAN, n \in 0..Len(resp.Body) :
       /\ complete => n = Len(resp.Body)
       /\ netlog' = Append(netlog, Phase("read", complete))
       /\ htmlData' = SubSeq(resp.Body, 1, n)
       /\ err' = IF complete THEN NoError ELSE TransportError("ReadError", 0)
       /\ IF ReadFailed(err')
          THEN /\ stdout' = Append(stdout, <<Lit("Error: "), VerbS(ErrorArg(err')),
                                             Lit(" reading response")>>)
               /\ outcome' = "readerror"
               /\ pc' = "done"
          ELSE /\ pc' = "print"
               /\ UNCHANGED <<stdout, outcome>>
       /\ conn' = IF complete THEN conn ELSE "closed"
  /\ UNCHANGED <<inputs, parsedProxy, proxyScheme, proxyHost, req, transport, handedOff,
                 connectReq, connectStatus, resp, wire, panicAt>>

\* Line 71, and the end of main().
PrintHtmlData ==
  /\ pc = "print"
  /\ stdout' = Append(stdout, PrintBody(htmlData))
  /\ outcome' = "success"
  /\ pc' = "done"
  /\ UNCHANGED <<inputs, parsedProxy, proxyScheme, proxyHost, req, transport, handedOff,
                 connectReq, connectStatus, conn, netlog, resp, err, wire, htmlData,
                 panicAt>>

Next ==
  \/ SplitProxy
  \/ BuildRequest
  \/ BuildTransport
  \/ SetAuth
  \/ DoStart
  \/ Dial
  \/ Connect
  \/ TLSHandshake
  \/ Exchange
  \/ AfterDo
  \/ PrintStatusCode
  \/ ReadAll
  \/ PrintHtmlData

Spec == Init /\ [][Next]_vars

\* The same program over every proxy specifier up to MaxProxyLen.
SpecProxy == InitProxy /\ [][Next]_vars

\* The same program over every user and password up to MaxCredLen.
SpecCred == InitCred /\ [][Next]_vars

\* ================================================================ claims
\* Whether s holds "://" (written from the bytes, not from Index).
HasSchemeDelim(s) ==
  \E i \in 1..(Len(s) - 2) : s[i] = 58 /\ s[i + 1] = 47 /\ s[i + 2] = 47

\* The value of a base64 character in the RFC 4648 alphabet, -1 for others.
Base64Value(c) ==
  IF c \in 65..90 THEN c - 65
  ELSE IF c \in 97..122 THEN c - 71
  ELSE IF c \in 48..57 THEN c + 4
  ELSE IF c = 43 THEN 62
  ELSE IF c = 47 THEN 63
  ELSE -1

\* Whether e is the standard base64 text of the bytes b: groups of four
\* characters, each the 6-bit digits of three bytes, the last group padded
\* with '=' when one or two bytes remain, its unused bits zero.
RECURSIVE IsStdBase64Of(_, _)
IsStdBase64Of(e, b) ==
  IF Len(b) = 0 THEN Len(e) = 0
  ELSE /\ Len(e) >= 4
       /\ Base64Value(e[1]) >= 0 /\ Base64Value(e[2]) >= 0
       /\ b[1] = Base64Value(e[1]) * 4 + Base64Value(e[2]) \div 16
       /\ IF Len(b) = 1
          THEN /\ Len(e) = 4 /\ e[3] = 61 /\ e[4] = 61
               /\ Base64Value(e[2]) % 16 = 0
          ELSE /\ Base64Value(e[3]) >= 0
               /\ b[2] = (Base64Value(e[2]) % 16) * 16 + Base64Value(e[3]) \div 4
               /\ IF Len(b) = 2
                  THEN /\ Len(e) = 4 /\ e[4] = 61
                       /\ Base64Value(e[3]) % 4 = 0
                  ELSE /\ Base64Value(e[4]) >= 0
                       /\ b[3] = (Base64Value(e[3]) % 4) * 64 + Base64Value(e[4])
                       /\ IsStdBase64Of(SubSeq(e, 5, Len(e)), SubSeq(b, 4, Len(b)))

\* Whether some network phase named p was attempted.
Attempted(p) == \E i \in DOMAIN netlog : netlog[i].phase = p

\* C1: for an https destination with user and password given, the CONNECT
\* request the proxy receives carries the Proxy-Authorization value that was
\* set on the original request.
C1_ConnectCarriesProxyAuthorization ==
  (~connectReq.isNil /\ user # <<>> /\ password # <<>>)
    => /\ Len(handedOff.Header[ProxyAuthorization]) = 1
       /\ connectReq.Header[ProxyAuthorization] = handedOff.Header[ProxyAuthorization]

\* C2: with user and password both non-empty, the constructed request has
\* exactly one Proxy-Authorization value, "Basic " followed by the standard
\* base64 text of user ":" password.
C2_BasicAuthHeader ==
  (user # <<>> /\ password # <<>> /\ ~req.isNil /\ pc \notin {"split", "newrequest", "transport", "auth"})
    => /\ Len(req.Header[ProxyAuthorization]) = 1
       /\ LET v == req.Header[ProxyAuthorization][1]
          IN  /\ Len(v) >= 6
              /\ SubSeq(v, 1, 6) = <<66, 97, 115, 105, 99, 32>>
              /\ IsStdBase64Of(SubSeq(v, 7, Len(v)), user \o <<58>> \o password)

\* C2's case: a request with the header, for a user:password of five bytes
\* (one padding character) that holds a byte above 127.
C2_Witness ==
  /\ pc = "do" /\ ~req.isNil
  /\ user = <<255, 97>> /\ password = <<58, 255>>
  /\ Len(req.Header[ProxyAuthorization]) = 1

\* C3: a proxy specifier without "://" ends the run in a reported error, not
\* in a crash, with no request built and no network phase attempted.
C3_MalformedProxyIsConfigError ==
  (~HasSchemeDelim(proxy) /\ pc = "done")
    => /\ outcome \notin {"panic", "success"}
       /\ req.isNil
       /\ netlog = <<>>

\* C4: for a proxy specifier s "://" h, with no further "://" in s or h, the
\* transport's proxy URL has Scheme = s and Host = h.
C4_ProxyTargetIsSchemeAndHost ==
  \A i \in 1..(Len(proxy) - 2) :
    LET s == SubSeq(proxy, 1, i - 1)
        h == SubSeq(proxy, i + 3, Len(proxy))
    IN  ( /\ proxy[i] = 58 /\ proxy[i + 1] = 47 /\ proxy[i + 2] = 47
          /\ ~HasSchemeDelim(s) /\ ~HasSchemeDelim(h)
          /\ pc \notin {"split", "newrequest", "transport"} )
          => /\ transport.Proxy.Scheme = s
             /\ transport.Proxy.Host = h

\* C4's case: the transport is built for "h1://h:1"-like input, here "h://1:1",
\* and is dialling.
C4_Witness ==
  /\ proxy = <<104, 58, 47, 47, 49, 58, 49>>
  /\ pc = "dial"
  /\ transport.Proxy.Host = <<49, 58, 49>>

\* C5: when the proxy answers CONNECT with a status outside 2xx, no TLS
\* handshake is ever started and the run ends reporting that status as the
\* proxy's refusal.
C5_ConnectRejectedIsProxyAuthError ==
  (connectStatus # 0 /\ connectStatus \notin 200..299)
    => /\ ~Attempted("tls")
       /\ pc = "done" =>
            /\ outcome = "error"
            /\ stdout[Len(stdout)] =
                 <<Lit("error: "), [k |-> "error", s |-> "ProxyAuthError", q |-> <<>>,
                                    n |-> connectStatus]>>

\* C5's case: the proxy answered 407 and the run is over.
C5_Witness == pc = "done" /\ connectStatus = 407 /\ outcome = "error"

\* C6: when the proxy answered CONNECT with 200 and the run succeeded, what is printed for the status code is the destination's
\* status code and what is printed for the body is exactly its bytes.
C6_OutputIsDestinationStatusAndBody ==
  (connectStatus = 200 /\ outcome = "success")
    => /\ stdout[Len(stdout) - 1] = <<Lit("code: "), IntDec(wire.StatusCode)>>
       /\ stdout[Len(stdout)] = <<Str(wire.Body)>>

\* C7: an empty or invalid destination URL ends the run in a reported error,
\* not in a crash, with no request handed on and no network phase attempted.
C7_BadDestinationIsConfigError ==
  (dest \in {"", ":bad"} /\ HasSchemeDelim(proxy) /\ pc = "done")
    => /\ outcome \notin {"panic", "success"}
       /\ netlog = <<>>

\* C8: with the user or the password empty, the request handed to the
\* transport has no Proxy-Authorization value, and the basic-auth step does
\* not fail the run.
C8_PartialCredentialsSendNoHeader ==
  (user = <<>> \/ password = <<>>)
    => /\ pc = "do" => req.Header[ProxyAuthorization] = <<>>
       /\ handedOff.Header[ProxyAuthorization] = <<>>
       /\ panicAt # "req.Header"

\* C8's case: only the user is given, and the request has been handed on.
C8_Witness ==
  /\ user # <<>> /\ password = <<>>
  /\ ~handedOff.isNil /\ pc = "dial"

\* C9: certificate validation is skipped only in runs where the caller
\* selected the insecure mode.
C9_SkipVerifyOnlyWhenSelected ==
  transport.TLSClientConfig.InsecureSkipVerify = InsecureSelected

\* C10: every network phase is attempted at most once, nothing follows a
\* failed phase, and a run with a failed phase ends reporting an error.
C10_NoRetry ==
  /\ \A i, j \in DOMAIN netlog : netlog[i].phase = netlog[j].phase => i = j
  /\ \A i \in DOMAIN netlog : ~netlog[i].ok => i = Len(netlog)
  /\ ((\E i \in DOMAIN netlog : ~netlog[i].ok) /\ pc = "done")
       => outcome \in {"error", "readerror"}

\* C10's case: dial and CONNECT succeeded, the handshake failed, the run is over.
C10_Witness ==
  /\ pc = "done" /\ Len(netlog) = 3
  /\ netlog[3] = [phase |-> "tls", ok |-> FALSE]
  /\ outcome = "error"

\* Lines of standard output, by what they report.
IsCodeLine(l) == Len(l) >= 1 /\ l[1] = [k |-> "lit", s |-> "code: ", q |-> <<>>, n |-> 0]
IsDoErrorLine(l) == Len(l) >= 1 /\ l[1] = [k |-> "lit", s |-> "error: ", q |-> <<>>, n |-> 0]
IsReadErrorLine(l) == Len(l) >= 1 /\ l[1] = [k |-> "lit", s |-> "Error: ", q |-> <<>>, n |-> 0]
IsBodyLine(l) == Len(l) >= 1 /\ l[1].k # "lit"
PrintedCode == \E i \in DOMAIN stdout : IsCodeLine(stdout[i])
PrintedBody == \E i \in DOMAIN stdout : IsBodyLine(stdout[i])

\* Whether the body read was interrupted.
ReadInterrupted == \E i \in DOMAIN netlog : netlog[i] = [phase |-> "read", ok |-> FALSE]

C12_NoOpenConnectionAtEnd ==
  pc = "done" => conn # "open"

\* C13: the phases attempted are, in this order and with none left out, a
\* beginning of dial, CONNECT, TLS handshake, request exchange, body read for
\* an https destination (dial, request exchange, body read otherwise), and
\* every phase but the last attempted one has succeeded.
C13_PhasesInOrder ==
  LET order == IF dest = "https://example.test/"
               THEN <<"dial", "connect", "tls", "exchange", "read">>
               ELSE <<"dial", "exchange", "read">>
  IN  /\ Len(netlog) <= Len(order)
      /\ \A i \in DOMAIN netlog :
           /\ netlog[i].phase = order[i]
           /\ i < Len(netlog) => netlog[i].ok

\* C13's case: an https run that went through all the phases.
C13_Witness ==
  /\ dest = "https://example.test/"
  /\ Len(netlog) = 5 /\ netlog[5].phase = "read"
  /\ pc = "done" /\ outcome = "success"

\* C14: once the request has been handed to client.Do, it is the request
\* that was handed over, unchanged; and when user and password are given,
\* the request handed over already had its Proxy-Authorization value.
C14_HeaderSetBeforeHandOff ==
  ~handedOff.isNil
    => /\ req = handedOff
       /\ (user # <<>> /\ password # <<>>)
            => Len(handedOff.Header[ProxyAuthorization]) = 1

\* C14's case: credentials given, the request handed over, CONNECT next.
C14_Witness ==
  /\ user # <<>> /\ password # <<>>
  /\ ~handedOff.isNil /\ pc = "connect"
  /\ Len(handedOff.Header[ProxyAuthorization]) = 1

\* Whether q is a non-empty string with neither ':' nor '/'.
IsName(q) == Len(q) > 0 /\ \A i \in DOMAIN q : q[i] # 58 /\ q[i] # 47

\* Whether px is scheme "://" host with no port, and then its two parts.
NoPortSplit(px) ==
  {i \in 1..(Len(px) - 2) :
     /\ px[i] = 58 /\ px[i + 1] = 47 /\ px[i + 2] = 47
     /\ IsName(SubSeq(px, 1, i - 1))
     /\ IsName(SubSeq(px, i + 3, Len(px)))}

\* C15 as stated: for a proxy specifier scheme://host with no port (and a
\* destination that can be requested) the run ends in a reported error and
\* no connection to the proxy is attempted.
C15_NoPortIsConfigError ==
  (NoPortSplit(proxy) # {} /\ dest \in {"http://example.test/", "https://example.test/"})
    => /\ netlog = <<>>
       /\ pc = "done" => outcome = "error"

\* C15 as amended: a proxy specifier scheme://host with no port is not a
\* configuration error for main(): the split does not fail, the transport's
\* proxy is exactly that scheme and that host, with no port added by main(),
\* and with a destination that can be requested the proxy is dialled.
C15_NoPortIsPassedOn ==
  \A i \in NoPortSplit(proxy) :
    /\ panicAt # "parsedProxy[1]"
    /\ pc \notin {"split", "newrequest", "transport"}
         => transport.Proxy = [Scheme |-> SubSeq(proxy, 1, i - 1),
                               Host |-> SubSeq(proxy, i + 3, Len(proxy))]
    /\ (pc = "done" /\ dest \in {"http://example.test/", "https://example.test/"})
         => Attempted("dial")

\* C15's case: "h1://1h", transport built with host "1h", proxy dialled.
C15_Witness ==
  /\ proxy = <<104, 49, 58, 47, 47, 49, 104>>
  /\ transport.Proxy.Host = <<49, 104>>
  /\ Attempted("dial")

\* The number of lines of standard output that satisfy a report predicate.
DoErrorLines == Cardinality({i \in DOMAIN stdout : IsDoErrorLine(stdout[i])})
ReadErrorLines == Cardinality({i \in DOMAIN stdout : IsReadErrorLine(stdout[i])})
BodyLines == Cardinality({i \in DOMAIN stdout : IsBodyLine(stdout[i])})

\* C16: a run whose request reached client.Do reports at most one of: the
\* error of client.Do, the read error, the body; and exactly one when it has
\* ended.  When client.Do failed (no response), only its error is reported:
\* no status code is printed, no body is read or printed, and the missing
\* response is never dereferenced.  The body is read only after the status
\* code was printed, and printed only after a read without error.
C16_OneOutcomeResponseGuarded ==
  ~handedOff.isNil
    => /\ DoErrorLines + ReadErrorLines + BodyLines <= 1
       /\ pc = "done" => DoErrorLines + ReadErrorLines + BodyLines = 1
       /\ panicAt = "none"
       /\ (pc = "done" /\ resp.isNil)
            => /\ outcome = "error" /\ DoErrorLines = 1
               /\ ~PrintedCode /\ ~Attempted("read") /\ ~PrintedBody
       /\ Attempted("read") => PrintedCode
       /\ PrintedBody
            => /\ netlog[Len(netlog)] = [phase |-> "read", ok |-> TRUE]
               /\ err = [kind |-> "nil", status |-> 0]

\* C16's case: client.Do failed at the dial and the run is over.
C16_Witness ==
  /\ ~handedOff.isNil /\ resp.isNil
  /\ pc = "done" /\ outcome = "error"
  /\ netlog = <<[phase |-> "dial", ok |-> FALSE]>>

=============================================================================
